---- MODULE Spec2Model ----
(***************************************************************************)
(* Invoice extraction service: POST /extract (analysis result              *)
(* normalisation, confidence gate, best-effort upsert), the invoice        *)
(* controller (create / get_by_id / get_by_vendor / delete) over the three *)
(* tables invoices, confidences and items, and the invoice view.           *)
(*                                                                         *)
(* Representation of Python values:                                        *)
(*   - an object is a record whose domain is the set of attributes it has; *)
(*   - the None object reference and the empty list are the empty function *)
(*     << >> (the source reads every list through "x or []");              *)
(*   - scalar values (strings, floats) are strings, None is NoneVal;       *)
(*   - a dict is a function from its keys;                                 *)
(*   - a document confidence is an integer in units of 1/10000, and a      *)
(*     confidence attribute holding None is NoConfidence.                  *)
(***************************************************************************)
EXTENDS Integers, Sequences, FiniteSets, TLC

None == << >>
NoneVal == "None"
NoConfidence == 0 - 1

\* getattr(o, k, d): attribute k of object o, d when o has no such attribute
GetAttr(o, k, d) == IF k \in DOMAIN o THEN o[k] ELSE d
HasAttr(o, k) == k \in DOMAIN o
\* d.get(k, default)
DictGet(d, k, default) == IF k \in DOMAIN d THEN d[k] ELSE default
\* variant: d.setdefault(k, v), the first write of a key stays
DictSetDefault(d, k, v) ==
    [x \in (DOMAIN d) \cup {k} |-> IF x \in DOMAIN d THEN d[x] ELSE v]

\* d[k] = v
DictPut(d, k, v) == [x \in (DOMAIN d) \cup {k} |-> IF x = k THEN v ELSE d[x]]
\* x or []
OrEmpty(x) == IF x = None THEN << >> ELSE x
\* variant: only None counts as missing ("is None" instead of "not x")
TruthyNotNone(v) == v # NoneVal

\* truth value of a scalar: None and the empty string are falsy
Truthy(v) == v # NoneVal /\ v # ""

(***************************************************************************)
(* extract: document confidence (app.py 47-53)                             *)
(***************************************************************************)
DefaultConfidence == 10000
Threshold == 9000

\* variant: the loop has no break, the last INVOICE entry wins
FirstInvoiceConfidenceNoBreak(detected_types, i) ==
    LET found == {j \in i..Len(detected_types) :
                     GetAttr(detected_types[j], "document_type", NoneVal) = "INVOICE"}
    IN  IF found = {} THEN DefaultConfidence
        ELSE GetAttr(detected_types[CHOOSE j \in found : \A k \in found : k <= j],
                     "confidence", DefaultConfidence)

RECURSIVE FirstInvoiceConfidence(_, _)
FirstInvoiceConfidence(detected_types, i) ==
    IF i > Len(detected_types) THEN DefaultConfidence
    ELSE IF GetAttr(detected_types[i], "document_type", NoneVal) = "INVOICE"
         THEN GetAttr(detected_types[i], "confidence", DefaultConfidence)
         ELSE FirstInvoiceConfidence(detected_types, i + 1)

\* variant: the confidence of the first entry, whatever its document type
InvoiceConfidenceAnyType(response_data) ==
    LET detected_types == OrEmpty(GetAttr(response_data, "detected_document_types", None))
    IN  IF detected_types = << >> THEN DefaultConfidence
        ELSE GetAttr(detected_types[1], "confidence", DefaultConfidence)

InvoiceConfidence(response_data) ==
    FirstInvoiceConfidence(OrEmpty(GetAttr(response_data, "detected_document_types", None)), 1)

(***************************************************************************)
(* extract: field extraction (app.py 55-83).  Each loop is a fold that     *)
(* carries "raised": an attribute read without getattr (item.field_value,  *)
(* item_field.field_value) on an object lacking it raises AttributeError.  *)
(***************************************************************************)
RECURSIVE ItemFieldLoop(_, _, _)
ItemFieldLoop(item_fields, i, item_data) ==
    IF i > Len(item_fields) THEN [raised |-> FALSE, item_data |-> item_data]
    ELSE LET item_field == item_fields[i]
             item_field_label == GetAttr(item_field, "field_label", None)
             item_field_name == GetAttr(item_field_label, "name", NoneVal)
         IN  IF ~HasAttr(item_field, "field_value")
             THEN [raised |-> TRUE, item_data |-> item_data]
             ELSE LET item_field_value == GetAttr(item_field.field_value, "value", NoneVal)
                  IN  ItemFieldLoop(item_fields, i + 1,
                          IF item_field_name # NoneVal
                          THEN DictPut(item_data, item_field_name, item_field_value)
                          ELSE item_data)

\* variant: an item record is appended only if it has a key
RECURSIVE ItemLoopSkipEmpty(_, _, _)
ItemLoopSkipEmpty(groups, i, items) ==
    IF i > Len(groups) THEN [raised |-> FALSE, items |-> items]
    ELSE LET item == groups[i]
         IN  IF ~HasAttr(item, "field_value")
             THEN [raised |-> TRUE, items |-> items]
             ELSE LET r == ItemFieldLoop(OrEmpty(GetAttr(item.field_value, "items", None)), 1, << >>)
                  IN  IF r.raised THEN [raised |-> TRUE, items |-> items]
                      ELSE ItemLoopSkipEmpty(groups, i + 1,
                               IF r.item_data = << >> THEN items
                               ELSE Append(items, r.item_data))

RECURSIVE ItemLoop(_, _, _)
ItemLoop(groups, i, items) ==
    IF i > Len(groups) THEN [raised |-> FALSE, items |-> items]
    ELSE LET item == groups[i]
         IN  IF ~HasAttr(item, "field_value")
             THEN [raised |-> TRUE, items |-> items]
             ELSE LET r == ItemFieldLoop(OrEmpty(GetAttr(item.field_value, "items", None)), 1, << >>)
                  IN  IF r.raised THEN [raised |-> TRUE, items |-> items]
                      ELSE ItemLoop(groups, i + 1, Append(items, r.item_data))

\* variant: a named field is recorded only if it has a value
RECURSIVE FieldLoopSkipsNullValues(_, _, _)
FieldLoopSkipsNullValues(fields, i, acc) ==
    IF i > Len(fields) \/ acc.raised THEN acc
    ELSE LET field == fields[i]
             field_label == GetAttr(field, "field_label", None)
             field_name == GetAttr(field_label, "name", NoneVal)
             field_conf == GetAttr(field_label, "confidence", NoneVal)
         IN  IF field_name = "Items"
             THEN LET field_value == GetAttr(field, "field_value", None)
                      r == ItemLoop(OrEmpty(GetAttr(field_value, "items", None)), 1, acc.items)
                  IN  FieldLoopSkipsNullValues(fields, i + 1,
                          [acc EXCEPT !.items = r.items, !.raised = r.raised])
             ELSE LET field_value_obj == GetAttr(field, "field_value", None)
                      field_value == GetAttr(field_value_obj, "value", NoneVal)
                  IN  FieldLoopSkipsNullValues(fields, i + 1,
                          IF field_name # NoneVal /\ field_value # NoneVal
                          THEN [acc EXCEPT !.data = DictPut(acc.data, field_name, field_value),
                                           !.data_confidence = DictPut(acc.data_confidence, field_name, field_conf)]
                          ELSE acc)

RECURSIVE FieldLoop(_, _, _)
FieldLoop(fields, i, acc) ==
    IF i > Len(fields) \/ acc.raised THEN acc
    ELSE LET field == fields[i]
             field_label == GetAttr(field, "field_label", None)
             field_name == GetAttr(field_label, "name", NoneVal)
             field_conf == GetAttr(field_label, "confidence", NoneVal)
         IN  IF field_name = "Items"
             THEN LET field_value == GetAttr(field, "field_value", None)
                      r == ItemLoop(OrEmpty(GetAttr(field_value, "items", None)), 1, acc.items)
                  IN  FieldLoop(fields, i + 1,
                          [acc EXCEPT !.items = r.items, !.raised = r.raised])
             ELSE LET field_value_obj == GetAttr(field, "field_value", None)
                      field_value == GetAttr(field_value_obj, "value", NoneVal)
                  IN  FieldLoop(fields, i + 1,
                          IF field_name # NoneVal
                          THEN [acc EXCEPT !.data = DictPut(acc.data, field_name, field_value),
                                           !.data_confidence = DictPut(acc.data_confidence, field_name, field_conf)]
                          ELSE acc)

RECURSIVE PageLoop(_, _, _)
PageLoop(pages, i, acc) ==
    IF i > Len(pages) \/ acc.raised THEN acc
    ELSE PageLoop(pages, i + 1,
             FieldLoop(OrEmpty(GetAttr(pages[i], "document_fields", None)), 1, acc))

\* variant: data["Items"] is set only when line items were collected
NormalizeItemsIfAny(response_data) ==
    LET acc == PageLoop(OrEmpty(GetAttr(response_data, "pages", None)), 1,
                        [data |-> << >>, data_confidence |-> << >>, items |-> << >>, raised |-> FALSE])
    IN  [raised |-> acc.raised,
         confidence |-> InvoiceConfidence(response_data),
         data |-> IF acc.items = << >> THEN acc.data ELSE DictPut(acc.data, "Items", acc.items),
         dataConfidence |-> acc.data_confidence]

\* the result dict of app.py 85-89 (plus "raised": the walk ended in an exception)
Normalize(response_data) ==
    LET acc == PageLoop(OrEmpty(GetAttr(response_data, "pages", None)), 1,
                        [data |-> << >>, data_confidence |-> << >>, items |-> << >>, raised |-> FALSE])
    IN  [raised |-> acc.raised,
         confidence |-> InvoiceConfidence(response_data),
         data |-> DictPut(acc.data, "Items", acc.items),
         dataConfidence |-> acc.data_confidence]

\* variant: the gate compares with <= and rejects the threshold itself
LowConfidenceInclusive(invoice_confidence) == invoice_confidence <= Threshold

\* app.py 92: the gate rejects below the threshold
LowConfidence(invoice_confidence) == invoice_confidence < Threshold

(***************************************************************************)
(* Storage: the tables of models/invoice.py, models/confidence.py and      *)
(* models/item.py.  A database value is a record                           *)
(*   invoices    : dict InvoiceId -> invoice row                           *)
(*   confidences : dict InvoiceId -> confidence row                        *)
(*   items       : the item rows in table (rowid) order                    *)
(*   nextItemId  : the next autoincrement id of the items table            *)
(***************************************************************************)
InvoiceColumns == {"VendorName", "InvoiceDate", "BillingAddressRecipient",
                   "ShippingAddress", "SubTotal", "ShippingCost", "InvoiceTotal"}
ItemColumns == {"Description", "Name", "Quantity", "UnitPrice", "Amount"}

DictRemove(d, k) == [x \in (DOMAIN d) \ {k} |-> d[x]]

\* Invoice(InvoiceId=..., VendorName=invoice_data.get("VendorName"), ...)
NewInvoice(invoice_data) ==
    [VendorName |-> DictGet(invoice_data, "VendorName", NoneVal),
     InvoiceDate |-> DictGet(invoice_data, "InvoiceDate", NoneVal),
     BillingAddressRecipient |-> DictGet(invoice_data, "BillingAddressRecipient", NoneVal),
     ShippingAddress |-> DictGet(invoice_data, "ShippingAddress", NoneVal),
     SubTotal |-> DictGet(invoice_data, "SubTotal", NoneVal),
     ShippingCost |-> DictGet(invoice_data, "ShippingCost", NoneVal),
     InvoiceTotal |-> DictGet(invoice_data, "InvoiceTotal", NoneVal)]

\* variant: an update keeps the stored value of a column the input lacks
UpdateInvoiceMerge(existing_invoice, invoice_data) ==
    [c \in DOMAIN existing_invoice |->
        IF c \in DOMAIN invoice_data THEN invoice_data[c] ELSE existing_invoice[c]]

\* existing_invoice.VendorName = invoice_data.get("VendorName") ...
UpdateInvoice(existing_invoice, invoice_data) ==
    [existing_invoice EXCEPT
        !.VendorName = DictGet(invoice_data, "VendorName", NoneVal),
        !.InvoiceDate = DictGet(invoice_data, "InvoiceDate", NoneVal),
        !.BillingAddressRecipient = DictGet(invoice_data, "BillingAddressRecipient", NoneVal),
        !.ShippingAddress = DictGet(invoice_data, "ShippingAddress", NoneVal),
        !.SubTotal = DictGet(invoice_data, "SubTotal", NoneVal),
        !.ShippingCost = DictGet(invoice_data, "ShippingCost", NoneVal),
        !.InvoiceTotal = DictGet(invoice_data, "InvoiceTotal", NoneVal)]

SaveInvoice(tx, invoice_id, invoice_data) ==
    IF invoice_id \in DOMAIN tx.invoices
    THEN [tx EXCEPT !.invoices = DictPut(tx.invoices, invoice_id,
                                         UpdateInvoice(tx.invoices[invoice_id], invoice_data))]
    ELSE [tx EXCEPT !.invoices = DictPut(tx.invoices, invoice_id, NewInvoice(invoice_data))]

\* Confidence(InvoiceId=..., VendorName=confidence_data.get("VendorName"), ...)
NewConfidence(confidence_data) ==
    [VendorName |-> DictGet(confidence_data, "VendorName", NoneVal),
     InvoiceDate |-> DictGet(confidence_data, "InvoiceDate", NoneVal),
     BillingAddressRecipient |-> DictGet(confidence_data, "BillingAddressRecipient", NoneVal),
     ShippingAddress |-> DictGet(confidence_data, "ShippingAddress", NoneVal),
     SubTotal |-> DictGet(confidence_data, "SubTotal", NoneVal),
     ShippingCost |-> DictGet(confidence_data, "ShippingCost", NoneVal),
     InvoiceTotal |-> DictGet(confidence_data, "InvoiceTotal", NoneVal)]

\* existing_confidence.VendorName = confidence_data.get("VendorName") ...
UpdateConfidence(existing_confidence, confidence_data) ==
    [existing_confidence EXCEPT
        !.VendorName = DictGet(confidence_data, "VendorName", NoneVal),
        !.InvoiceDate = DictGet(confidence_data, "InvoiceDate", NoneVal),
        !.BillingAddressRecipient = DictGet(confidence_data, "BillingAddressRecipient", NoneVal),
        !.ShippingAddress = DictGet(confidence_data, "ShippingAddress", NoneVal),
        !.SubTotal = DictGet(confidence_data, "SubTotal", NoneVal),
        !.ShippingCost = DictGet(confidence_data, "ShippingCost", NoneVal),
        !.InvoiceTotal = DictGet(confidence_data, "InvoiceTotal", NoneVal)]

\* variant: no confidence row is written for an empty confidence dict
SaveConfidenceIfAny(tx, invoice_id, confidence_data) ==
    IF confidence_data = << >> THEN tx
    ELSE [tx EXCEPT !.confidences = DictPut(tx.confidences, invoice_id, NewConfidence(confidence_data))]

SaveConfidence(tx, invoice_id, confidence_data) ==
    IF invoice_id \in DOMAIN tx.confidences
    THEN [tx EXCEPT !.confidences = DictPut(tx.confidences, invoice_id,
                                            UpdateConfidence(tx.confidences[invoice_id], confidence_data))]
    ELSE [tx EXCEPT !.confidences = DictPut(tx.confidences, invoice_id, NewConfidence(confidence_data))]

\* variant: the old item rows are not deleted before the new ones are added
DeleteItemsSkipped(tx, invoice_id) == tx

\* variant: the DELETE has no filter, the item rows of every invoice go
DeleteItemsOfAll(tx, invoice_id) == [tx EXCEPT !.items = << >>]

\* db.query(Item).filter_by(InvoiceId=invoice_id).delete()
DeleteItems(tx, invoice_id) ==
    [tx EXCEPT !.items = SelectSeq(tx.items, LAMBDA row : row.InvoiceId # invoice_id)]

\* Item(InvoiceId=invoice_id, Description=item_data.get("Description"), ...)
NewItem(id, invoice_id, item_data) ==
    [id |-> id,
     InvoiceId |-> invoice_id,
     Description |-> DictGet(item_data, "Description", NoneVal),
     Name |-> DictGet(item_data, "Name", NoneVal),
     Quantity |-> DictGet(item_data, "Quantity", NoneVal),
     UnitPrice |-> DictGet(item_data, "UnitPrice", NoneVal),
     Amount |-> DictGet(item_data, "Amount", NoneVal)]

RECURSIVE AddItems(_, _, _, _)
AddItems(tx, invoice_id, items, i) ==
    IF i > Len(items) THEN tx
    ELSE AddItems([tx EXCEPT !.items = Append(tx.items, NewItem(tx.nextItemId, invoice_id, items[i])),
                             !.nextItemId = tx.nextItemId + 1],
                  invoice_id, items, i + 1)

\* variant: the writes made before the exception stay in the database
RollbackKeepsWrites(committed, tx) == tx

\* db.rollback(): the committed database stays, the transaction's writes go
Rollback(committed, tx) == committed
\* db.commit(): the transaction's writes become the committed database
Commit(committed, tx) == tx

\* the places where the database can raise inside create
FailPoints == {"none", "invoice", "confidence", "delete_items", "item", "commit"}

\* the body of create after the InvoiceId check, up to the first exception
CreateTx(db, invoice_id, invoice_data, confidence_data, failAt) ==
    LET t1 == SaveInvoice(db, invoice_id, invoice_data)
        t2 == SaveConfidence(t1, invoice_id, confidence_data)
        t3 == DeleteItems(t2, invoice_id)
        items == DictGet(invoice_data, "Items", << >>)
        t4 == AddItems(t3, invoice_id, items, 1)
    IN  IF failAt = "invoice" THEN [failed |-> TRUE, tx |-> db]
        ELSE IF failAt = "confidence" THEN [failed |-> TRUE, tx |-> t1]
        ELSE IF failAt = "delete_items" THEN [failed |-> TRUE, tx |-> t2]
        ELSE IF failAt = "item" /\ Len(items) > 0 THEN [failed |-> TRUE, tx |-> t3]
        ELSE IF failAt = "commit" THEN [failed |-> TRUE, tx |-> t4]
        ELSE [failed |-> FALSE, tx |-> t4]

\* InvoiceController.create: [db: the committed database afterwards,
\*   ret: the returned value, raised: the call ended in an exception]
Create(db, invoice_data, confidence_data, failAt) ==
    LET invoice_id == DictGet(invoice_data, "InvoiceId", NoneVal)
    IN  IF ~Truthy(invoice_id)
        THEN [db |-> db, ret |-> NoneVal, raised |-> FALSE]
        ELSE LET t == CreateTx(db, invoice_id, invoice_data, confidence_data, failAt)
             IN  IF t.failed
                 THEN [db |-> Rollback(db, t.tx), ret |-> NoneVal, raised |-> TRUE]
                 ELSE [db |-> Commit(db, t.tx), ret |-> invoice_id, raised |-> FALSE]

\* variant: the relationships carry no cascade, only the invoice row goes
DeleteWithoutCascade(tx, invoice_id) ==
    [tx EXCEPT !.invoices = DictRemove(tx.invoices, invoice_id)]

\* db.delete(invoice) with cascade="all, delete-orphan" on confidences and items
CascadeDelete(tx, invoice_id) ==
    [tx EXCEPT !.invoices = DictRemove(tx.invoices, invoice_id),
               !.confidences = DictRemove(tx.confidences, invoice_id),
               !.items = SelectSeq(tx.items, LAMBDA row : row.InvoiceId # invoice_id)]

\* variant: the except branch returns False without db.rollback(), and the
\* session's pending delete reaches the database
DeleteWithoutRollback(db, invoice_id, fails) ==
    IF invoice_id \notin DOMAIN db.invoices
    THEN [db |-> db, ret |-> FALSE]
    ELSE IF fails
         THEN [db |-> CascadeDelete(db, invoice_id), ret |-> FALSE]
         ELSE [db |-> Commit(db, CascadeDelete(db, invoice_id)), ret |-> TRUE]

\* InvoiceController.delete
Delete(db, invoice_id, fails) ==
    IF invoice_id \notin DOMAIN db.invoices
    THEN [db |-> db, ret |-> FALSE]
    ELSE IF fails
         THEN [db |-> Rollback(db, CascadeDelete(db, invoice_id)), ret |-> FALSE]
         ELSE [db |-> Commit(db, CascadeDelete(db, invoice_id)), ret |-> TRUE]

\* variant: the query joins the items table, an invoice without items is not found
GetByIdJoinsItems(db, invoice_id) ==
    /\ invoice_id \in DOMAIN db.invoices
    /\ \E i \in 1..Len(db.items) : db.items[i].InvoiceId = invoice_id

\* InvoiceController.get_by_id: does the query find a row
GetById(db, invoice_id) == invoice_id \in DOMAIN db.invoices

\* variant: .first() instead of .all(), at most one invoice of the vendor
GetByVendorFirst(db, vendor_name) ==
    LET found == {id \in DOMAIN db.invoices : db.invoices[id].VendorName = vendor_name}
    IN  IF found = {} THEN {} ELSE {CHOOSE id \in found : TRUE}

\* InvoiceController.get_by_vendor: the ids of the rows found
GetByVendor(db, vendor_name) ==
    {id \in DOMAIN db.invoices : db.invoices[id].VendorName = vendor_name}

\* the orders in which a query without ORDER BY may return the rows of a set
Orderings(ids) ==
    {rows \in [1..Cardinality(ids) -> ids] :
        \A i, j \in 1..Cardinality(ids) : i # j => rows[i] # rows[j]}

\* invoice.items: the item rows of the invoice, in table order
InvoiceItems(db, invoice_id) ==
    SelectSeq(db.items, LAMBDA row : row.InvoiceId = invoice_id)

(***************************************************************************)
(* views/invoice_view.py                                                   *)
(***************************************************************************)
FormatItem(item) ==
    [Description |-> item.Description, Name |-> item.Name, Quantity |-> item.Quantity,
     UnitPrice |-> item.UnitPrice, Amount |-> item.Amount]

\* variant: the view mixes up SubTotal and InvoiceTotal
FormatInvoiceSwapped(db, invoice_id) ==
    LET invoice == db.invoices[invoice_id]
        rows == SelectSeq(db.items, LAMBDA row : row.InvoiceId = invoice_id)
    IN  [InvoiceId |-> invoice_id,
         VendorName |-> invoice.VendorName,
         InvoiceDate |-> invoice.InvoiceDate,
         BillingAddressRecipient |-> invoice.BillingAddressRecipient,
         ShippingAddress |-> invoice.ShippingAddress,
         SubTotal |-> invoice.InvoiceTotal,
         ShippingCost |-> invoice.ShippingCost,
         InvoiceTotal |-> invoice.SubTotal,
         Items |-> [i \in 1..Len(rows) |->
                      [Description |-> rows[i].Description, Name |-> rows[i].Name,
                       Quantity |-> rows[i].Quantity, UnitPrice |-> rows[i].UnitPrice,
                       Amount |-> rows[i].Amount]]]

FormatInvoice(db, invoice_id) ==
    LET invoice == db.invoices[invoice_id]
        rows == InvoiceItems(db, invoice_id)
    IN  [InvoiceId |-> invoice_id,
         VendorName |-> invoice.VendorName,
         InvoiceDate |-> invoice.InvoiceDate,
         BillingAddressRecipient |-> invoice.BillingAddressRecipient,
         ShippingAddress |-> invoice.ShippingAddress,
         SubTotal |-> invoice.SubTotal,
         ShippingCost |-> invoice.ShippingCost,
         InvoiceTotal |-> invoice.InvoiceTotal,
         Items |-> [i \in 1..Len(rows) |-> FormatItem(rows[i])]]

\* format_invoices over the invoices a query returned, given by their ids
FormatInvoices(db, invoice_ids) ==
    [i \in 1..Len(invoice_ids) |-> FormatInvoice(db, invoice_ids[i])]

FormatVendorResponse(db, vendor_name, invoice_ids) ==
    [VendorName |-> vendor_name,
     TotalInvoices |-> Len(invoice_ids),
     invoices |-> FormatInvoices(db, invoice_ids)]

(***************************************************************************)
(* POST /extract (app.py 18-104): the outcome of one request.              *)
(***************************************************************************)
\* app.py 85-89
\* variant: the confidences that are None are left out of the result
ResultBodyKnownConfidences(result) ==
    [confidence |-> result.confidence, data |-> result.data,
     dataConfidence |-> [k \in {x \in DOMAIN result.dataConfidence :
                                   result.dataConfidence[x] # NoneVal} |->
                            result.dataConfidence[k]]]

ResultBody(result) ==
    [confidence |-> result.confidence, data |-> result.data,
     dataConfidence |-> result.dataConfidence]

\* variant: no try/except around the upsert, its exception escapes the handler
PersistUnguarded(db, result, failAt) ==
    LET c == Create(db, result.data, result.dataConfidence, failAt)
    IN  [db |-> c.db,
         escaped |-> c.raised,
         upsert |-> IF c.raised THEN "raised"
                    ELSE IF c.ret = NoneVal THEN "noop" ELSE "ok"]

\* app.py 98-102: the upsert inside try / except Exception: pass
Persist(db, result, failAt) ==
    LET c == Create(db, result.data, result.dataConfidence, failAt)
    IN  [db |-> c.db,
         escaped |-> FALSE,
         upsert |-> IF c.raised THEN "raised"
                    ELSE IF c.ret = NoneVal THEN "noop" ELSE "ok"]

\* variant: the upsert runs before the confidence check
ExtractSaveFirst(db, response_data, remoteFails, failAt) ==
    IF remoteFails
    THEN [status |-> "503", body |-> [error |-> "The service is currently unavailable."],
          db |-> db, normalized |-> FALSE, confidence |-> NoConfidence,
          gate |-> "none", upsert_calls |-> 0, upsert |-> "none"]
    ELSE LET result == Normalize(response_data)
             p == Persist(db, result, failAt)
         IN  IF result.raised \/ result.confidence = NoConfidence
             THEN [status |-> "500", body |-> [error |-> "Internal Server Error"],
                   db |-> db, normalized |-> TRUE, confidence |-> result.confidence,
                   gate |-> "none", upsert_calls |-> 0, upsert |-> "none"]
             ELSE IF LowConfidence(result.confidence)
             THEN [status |-> "400", body |-> [error |-> "Invalid document."],
                   db |-> p.db, normalized |-> TRUE, confidence |-> result.confidence,
                   gate |-> "rejected", upsert_calls |-> 1, upsert |-> p.upsert]
             ELSE [status |-> "200", body |-> ResultBody(result),
                   db |-> p.db, normalized |-> TRUE, confidence |-> result.confidence,
                   gate |-> "accepted", upsert_calls |-> 1, upsert |-> p.upsert]

\* variant: an exception of the analysis call is not caught as "unavailable",
\* the handler goes on with an empty result
ExtractIgnoresRemoteFailure(db, response_data, remoteFails, failAt) ==
    LET result == Normalize(response_data)
    IN  IF result.raised \/ result.confidence = NoConfidence
        THEN [status |-> "500", body |-> [error |-> "Internal Server Error"],
              db |-> db, normalized |-> TRUE, confidence |-> result.confidence,
              gate |-> "none", upsert_calls |-> 0, upsert |-> "none"]
        ELSE IF LowConfidence(result.confidence)
        THEN [status |-> "400", body |-> [error |-> "Invalid document."],
              db |-> db, normalized |-> TRUE, confidence |-> result.confidence,
              gate |-> "rejected", upsert_calls |-> 0, upsert |-> "none"]
        ELSE LET p == Persist(db, result, failAt)
             IN  [status |-> "200", body |-> ResultBody(result),
                  db |-> p.db, normalized |-> TRUE, confidence |-> result.confidence,
                  gate |-> "accepted", upsert_calls |-> 1, upsert |-> p.upsert]

\* variant: the rejection returns the computed result next to its status
ExtractRejectsWithResult(db, response_data, remoteFails, failAt) ==
    IF remoteFails
    THEN [status |-> "503", body |-> [error |-> "The service is currently unavailable."],
          db |-> db, normalized |-> FALSE, confidence |-> NoConfidence,
          gate |-> "none", upsert_calls |-> 0, upsert |-> "none"]
    ELSE LET result == Normalize(response_data)
         IN  IF result.raised \/ result.confidence = NoConfidence
             THEN [status |-> "500", body |-> [error |-> "Internal Server Error"],
                   db |-> db, normalized |-> TRUE, confidence |-> result.confidence,
                   gate |-> "none", upsert_calls |-> 0, upsert |-> "none"]
             ELSE IF LowConfidence(result.confidence)
             THEN [status |-> "400", body |-> ResultBody(result),
                   db |-> db, normalized |-> TRUE, confidence |-> result.confidence,
                   gate |-> "rejected", upsert_calls |-> 0, upsert |-> "none"]
             ELSE LET p == Persist(db, result, failAt)
                  IN  [status |-> "200", body |-> ResultBody(result),
                       db |-> p.db, normalized |-> TRUE, confidence |-> result.confidence,
                       gate |-> "accepted", upsert_calls |-> 1, upsert |-> p.upsert]

Extract(db, response_data, remoteFails, failAt) ==
    IF remoteFails
    THEN [status |-> "503", body |-> [error |-> "The service is currently unavailable."],
          db |-> db, normalized |-> FALSE, confidence |-> NoConfidence,
          gate |-> "none", upsert_calls |-> 0, upsert |-> "none"]
    ELSE LET result == Normalize(response_data)
         IN  IF result.raised \/ result.confidence = NoConfidence
             THEN \* AttributeError in the walk, or TypeError in None < 0.9
                  [status |-> "500", body |-> [error |-> "Internal Server Error"],
                   db |-> db, normalized |-> TRUE, confidence |-> result.confidence,
                   gate |-> "none", upsert_calls |-> 0, upsert |-> "none"]
             ELSE IF LowConfidence(result.confidence)
             THEN [status |-> "400", body |-> [error |-> "Invalid document."],
                   db |-> db, normalized |-> TRUE, confidence |-> result.confidence,
                   gate |-> "rejected", upsert_calls |-> 0, upsert |-> "none"]
             ELSE LET p == Persist(db, result, failAt)
                  IN  IF p.escaped
                      THEN [status |-> "500", body |-> [error |-> "Internal Server Error"],
                            db |-> p.db, normalized |-> TRUE, confidence |-> result.confidence,
                            gate |-> "accepted", upsert_calls |-> 1, upsert |-> p.upsert]
                      ELSE [status |-> "200", body |-> ResultBody(result),
                            db |-> p.db, normalized |-> TRUE, confidence |-> result.confidence,
                            gate |-> "accepted", upsert_calls |-> 1, upsert |-> p.upsert]

(***************************************************************************)
(* Bounds and the inputs the requests are drawn from                       *)
(***************************************************************************)
\* the items table never allocates more than MaxItemId surrogate ids
MaxItemId == 2

\* the invoice ids the requests and calls are about
InvoiceIds == {"A", "B"}
\* the vendor names looked up: no document or call names the vendor v0
VendorNames == {"v0", "v1", "v2"}

Label(name, confidence) == [name |-> name, confidence |-> confidence]
ScalarField(name, confidence, value) ==
    [field_label |-> Label(name, confidence), field_value |-> [value |-> value]]
ItemField(name, value) ==
    [field_label |-> [name |-> name], field_value |-> [value |-> value]]
ItemGroup(item_fields) == [field_value |-> [items |-> item_fields]]
ItemsField(groups) ==
    [field_label |-> Label("Items", NoneVal),
     field_value |-> [value |-> NoneVal, items |-> groups]]
DocType(document_type, confidence) ==
    [document_type |-> document_type, confidence |-> confidence]

Group1 == ItemGroup(<<ItemField("Name", "n1"), ItemField("Amount", "a1")>>)
Group2 == ItemGroup(<<ItemField("Description", "d2"), ItemField("Name", "n2"),
                      ItemField("Sku", "s2")>>)

IdFields == {<< >>, <<ScalarField("InvoiceId", "c9", "A")>>,
             <<ScalarField("InvoiceId", "c8", "B")>>}
\* the fields of a document besides InvoiceId: none, a short invoice with one
\* line item, a full invoice with two line items
BodyFields == {<< >>,
               <<ScalarField("VendorName", "c7", "v1"), ItemsField(<<Group1>>)>>,
               <<ScalarField("VendorName", "c6", "v2"),
                 ScalarField("InvoiceDate", "c4", "d1"),
                 ScalarField("BillingAddressRecipient", "c4", "b1"),
                 ScalarField("ShippingAddress", "c4", "s1"),
                 ScalarField("SubTotal", "c4", "u1"),
                 ScalarField("ShippingCost", "c4", "k1"),
                 ScalarField("InvoiceTotal", "c4", "t2"),
                 ItemsField(<<Group2, Group1>>)>>}

DetectedTypes == {None,
                  <<DocType("INVOICE", 8999)>>,
                  <<DocType("INVOICE", 9000)>>,
                  <<DocType("RECEIPT", 9900), DocType("INVOICE", 5000)>>,
                  <<DocType("INVOICE", 9500)>>,
                  <<DocType("INVOICE", NoConfidence)>>}

Response(dts, fields) ==
    [detected_document_types |-> dts, pages |-> <<[document_fields |-> fields]>>]

\* one document under every classification
GateResponses ==
    {Response(dts, <<ScalarField("InvoiceId", "c9", "A"),
                     ScalarField("VendorName", "c7", "v1"), ItemsField(<<Group1>>)>>) :
        dts \in DetectedTypes}
\* every document, classified as an invoice with confidence 0.9
DataResponses ==
    {Response(<<DocType("INVOICE", 9000)>>, idf \o bf) : idf \in IdFields, bf \in BodyFields}

\* response.data of a successful analysis call
Responses == GateResponses \cup DataResponses

\* arguments (invoice_data, confidence_data) of direct calls of
\* InvoiceController.create
DirectCalls ==
    {<<[VendorName |-> "v1", Items |-> <<[Name |-> "n1"]>>], << >>>>,
     <<[InvoiceId |-> "", VendorName |-> "v2", Items |-> << >>], [VendorName |-> "c1"]>>,
     <<[InvoiceId |-> "A", VendorName |-> "v2"], [VendorName |-> "c1", InvoiceTotal |-> "c2"]>>,
     <<[InvoiceId |-> "B", VendorName |-> "v1", InvoiceTotal |-> "t1",
        Items |-> <<[Name |-> "n3", Quantity |-> "q3"]>>], << >>>>}

\* the database failures injected into the upsert of an extract request
ExtractFailPoints == {"none", "delete_items", "commit"}

(***************************************************************************)
(* Raw analysis results for the normalisation of extract (app.py 43-89):   *)
(* every attribute the walk reads may be missing from its object or hold   *)
(* None.  "<< >>" in a list of objects is an object without the attribute  *)
(* read from it.                                                           *)
(***************************************************************************)
\* a detected_document_types list has at most MaxDocTypes entries
MaxDocTypes == 2
\* the first page of a document has at most MaxFields fields
MaxFields == 2

\* the sequences over S of length at most n
RECURSIVE SeqsUpTo(_, _)
SeqsUpTo(S, n) ==
    IF n = 0 THEN {<< >>}
    ELSE LET shorter == SeqsUpTo(S, n - 1)
         IN  shorter \cup {Append(s, x) : s \in {t \in shorter : Len(t) = n - 1}, x \in S}

\* entries of detected_document_types: both types at 0.8999, 0.9 and 0.95, an
\* INVOICE entry without a confidence, an entry without a document type
DocTypeEntries ==
    {DocType(t, c) : t \in {"INVOICE", "RECEIPT"}, c \in {8999, 9000, 9500}}
        \cup {[document_type |-> "INVOICE"], [confidence |-> 5000]}
DocTypeLists == SeqsUpTo(DocTypeEntries, MaxDocTypes)

\* item-groups: no item-fields (field_value None, or no items in it); unnamed
\* item-fields (no label, label None, name None) next to named ones, one of
\* them with field_value None; no field_value attribute on the group or on one
\* of its item-fields
GroupNullValue == [field_value |-> None]
GroupNoItems == [field_value |-> [value |-> "g1"]]
GroupUnnamed ==
    ItemGroup(<<[field_value |-> [value |-> "x1"]],
                [field_label |-> None, field_value |-> [value |-> "x2"]]>>)
GroupPartial ==
    ItemGroup(<<[field_label |-> [name |-> NoneVal], field_value |-> [value |-> "x3"]],
                [field_label |-> [name |-> "Quantity"], field_value |-> None],
                ItemField("Name", "n3"),
                [field_label |-> [name |-> "UnitPrice"], field_value |-> [text |-> "p3"]]>>)
GroupWithoutValue == << >>
GroupFieldWithoutValue ==
    ItemGroup(<<ItemField("Name", "n4"), [field_label |-> [name |-> "Amount"]]>>)

\* the fields a page is made of
RawFields ==
    {ScalarField("VendorName", "c1", "v1"),
     ScalarField("VendorName", "c2", "v2"),
     [field_label |-> Label("InvoiceTotal", "c3")],
     [field_label |-> Label("InvoiceTotal", "c4"), field_value |-> None],
     [field_label |-> [name |-> "InvoiceDate"], field_value |-> [text |-> "d1"]],
     [field_value |-> [value |-> "v4"]],
     [field_label |-> [name |-> NoneVal, confidence |-> "c5"], field_value |-> [value |-> "v5"]],
     ItemsField(<<Group1>>),
     ItemsField(<<GroupPartial, GroupNullValue, GroupUnnamed, GroupNoItems>>),
     [field_label |-> Label("Items", "c7"), field_value |-> [value |-> "v7"]],
     [field_label |-> Label("Items", "c8")],
     ItemsField(<<Group2, GroupWithoutValue>>),
     ItemsField(<<GroupFieldWithoutValue>>)}

\* a first page: without document_fields, or with up to MaxFields fields
FirstPages ==
    {<< >>} \cup {[document_fields |-> fs] : fs \in SeqsUpTo(RawFields, MaxFields)}
\* a second page: without document_fields, or with one field
LaterPages ==
    {<< >>} \cup {[document_fields |-> <<f>>] : f \in RawFields}
PageLists ==
    {<< >>} \cup {<<p>> : p \in FirstPages}
            \cup {<<p, q>> : p \in FirstPages, q \in LaterPages}

\* response.data of a successful analysis call: one document under every
\* classification, and every document classified as an invoice with confidence
\* 0.9; either attribute may be missing
RawResults ==
    {[pages |-> <<[document_fields |-> <<ScalarField("VendorName", "c1", "v1")>>]>>]}
        \cup {[detected_document_types |-> dts,
               pages |-> <<[document_fields |-> <<ScalarField("VendorName", "c1", "v1")>>]>>] :
                  dts \in DocTypeLists}
        \cup {[detected_document_types |-> <<DocType("INVOICE", 9000)>>]}
        \cup {[detected_document_types |-> <<DocType("INVOICE", 9000)>>, pages |-> ps] :
                  ps \in PageLists}

(***************************************************************************)
(* State                                                                   *)
(***************************************************************************)
VARIABLES invoices, confidences, items, nextItemId, last, saved
vars == <<invoices, confidences, items, nextItemId, last, saved>>

\* the committed database
DB == [invoices |-> invoices, confidences |-> confidences,
       items |-> items, nextItemId |-> nextItemId]

SetDB(db) ==
    /\ invoices' = db.invoices
    /\ confidences' = db.confidences
    /\ items' = db.items
    /\ nextItemId' = db.nextItemId

\* the last completed request or controller call
NoRequest ==
    [op |-> "none", arg |-> NoneVal, failAt |-> "none",
     status |-> "none", body |-> << >>, normalized |-> FALSE,
     confidence |-> NoConfidence, gate |-> "none", remote |-> "none",
     upsert_calls |-> 0, upsert |-> "none", ret |-> NoneVal, populated |-> FALSE]

Init ==
    /\ invoices = << >>
    /\ confidences = << >>
    /\ items = << >>
    /\ nextItemId = 1
    /\ last = NoRequest
    /\ saved = << >>

\* the arguments of the most recent committed create of an invoice
Saved(invoice_data, confidence_data) ==
    [fields |-> invoice_data, fieldConfidences |-> confidence_data]

\* the invoice a call is about was stored with a vendor name and line items
Populated(db, invoice_id) ==
    /\ Truthy(invoice_id)
    /\ invoice_id \in DOMAIN db.invoices
    /\ db.invoices[invoice_id].VendorName # NoneVal
    /\ \E i \in 1..Len(db.items) : db.items[i].InvoiceId = invoice_id

ExtractOutcome(o, failAt, remote) ==
    /\ o.db.nextItemId <= MaxItemId + 1
    /\ SetDB(o.db)
    /\ last' = [NoRequest EXCEPT !.op = "extract",
                   !.arg = IF o.status = "200"
                           THEN DictGet(o.body.data, "InvoiceId", NoneVal) ELSE NoneVal,
                   !.failAt = failAt, !.status = o.status, !.body = o.body,
                   !.normalized = o.normalized, !.confidence = o.confidence,
                   !.gate = o.gate, !.remote = remote,
                   !.upsert_calls = o.upsert_calls, !.upsert = o.upsert,
                   !.populated = /\ o.status = "200"
                                 /\ Populated(DB, DictGet(o.body.data, "InvoiceId", NoneVal))]
    /\ saved' = IF o.status = "200" /\ o.upsert = "ok"
                THEN DictPut(saved, o.body.data["InvoiceId"],
                             Saved(o.body.data, o.body.dataConfidence))
                ELSE saved

\* POST /extract, the analysis call raises
ExtractUnavailable ==
    \E o \in {Extract(DB, None, TRUE, "none")} : ExtractOutcome(o, "none", "raised")

\* the document carries an InvoiceId field, so that its upsert reaches the database
HasInvoiceId(response_data) ==
    \E i \in 1..Len(response_data.pages[1].document_fields) :
        response_data.pages[1].document_fields[i].field_label.name = "InvoiceId"

\* POST /extract, the analysis call returns response_data
ExtractAnalyzed ==
    \E response_data \in Responses, failAt \in ExtractFailPoints :
        /\ failAt = "none" \/ response_data \in DataResponses
        /\ failAt = "none" \/ HasInvoiceId(response_data)
        /\ \E o \in {Extract(DB, response_data, FALSE, failAt)} : ExtractOutcome(o, failAt, "returned")

\* InvoiceController.create called directly
CreateCall ==
    \E call \in DirectCalls, failAt \in FailPoints :
      LET invoice_data == call[1]
          confidence_data == call[2]
      IN
        /\ failAt = "none" \/ "InvoiceId" \in DOMAIN invoice_data
        /\ \E c \in {Create(DB, invoice_data, confidence_data, failAt)} :
               /\ c.db.nextItemId <= MaxItemId + 1
               /\ SetDB(c.db)
               /\ last' = [NoRequest EXCEPT !.op = "create",
                              !.arg = DictGet(invoice_data, "InvoiceId", NoneVal),
                              !.failAt = failAt,
                              !.status = IF c.raised THEN "raised" ELSE "returned",
                              !.body = Saved(invoice_data, confidence_data),
                              !.upsert_calls = 1, !.ret = c.ret,
                              !.upsert = IF c.raised THEN "raised"
                                         ELSE IF c.ret = NoneVal THEN "noop" ELSE "ok",
                              !.populated = Populated(DB, DictGet(invoice_data, "InvoiceId", NoneVal))]
               /\ saved' = IF ~c.raised /\ c.ret # NoneVal
                           THEN DictPut(saved, c.ret, Saved(invoice_data, confidence_data))
                           ELSE saved

\* InvoiceController.delete
DeleteCall ==
    \E invoice_id \in InvoiceIds, fails \in BOOLEAN :
        \E d \in {Delete(DB, invoice_id, fails)} :
            /\ SetDB(d.db)
            /\ last' = [NoRequest EXCEPT !.op = "delete", !.arg = invoice_id,
                           !.failAt = IF fails THEN "delete" ELSE "none",
                           !.status = "returned",
                           !.ret = IF d.ret THEN "True" ELSE "False",
                           !.populated = Populated(DB, invoice_id)]
            /\ saved' = IF d.ret THEN DictRemove(saved, invoice_id) ELSE saved

\* GET /invoice/{invoice_id}
GetInvoice ==
    \E invoice_id \in InvoiceIds :
        /\ last' = [NoRequest EXCEPT !.op = "get_invoice", !.arg = invoice_id,
                       !.status = IF GetById(DB, invoice_id) THEN "200" ELSE "404",
                       !.body = IF GetById(DB, invoice_id)
                                THEN FormatInvoice(DB, invoice_id)
                                ELSE [error |-> "Invoice not found"]]
        /\ UNCHANGED <<invoices, confidences, items, nextItemId, saved>>

\* GET /invoices/vendor/{vendor_name}
GetInvoicesByVendor ==
    \E vendor_name \in VendorNames :
        \E rows \in Orderings(GetByVendor(DB, vendor_name)) :
            /\ last' = [NoRequest EXCEPT !.op = "get_invoices_by_vendor",
                           !.arg = vendor_name, !.status = "200",
                           !.body = FormatVendorResponse(DB, vendor_name, rows)]
            /\ UNCHANGED <<invoices, confidences, items, nextItemId, saved>>

Next ==
    \/ ExtractUnavailable
    \/ ExtractAnalyzed
    \/ CreateCall
    \/ DeleteCall
    \/ GetInvoice
    \/ GetInvoicesByVendor

Spec == Init /\ [][Next]_vars

(***************************************************************************)
(* The normalisation specification: one POST /extract per behaviour,       *)
(* against the empty database, the analysis call returning any of          *)
(* RawResults.                                                             *)
(***************************************************************************)
\* an extract request whose analysis call has returned response_data
Pending(response_data) == [op |-> "pending", raw |-> response_data]

InitNorm ==
    /\ invoices = << >>
    /\ confidences = << >>
    /\ items = << >>
    /\ nextItemId = 1
    /\ saved = << >>
    /\ last \in {Pending(response_data) : response_data \in RawResults}

\* POST /extract from the return of the analysis call to the response
ExtractRaw ==
    /\ last.op = "pending"
    /\ \E o \in {Extract(DB, last.raw, FALSE, "none")} :
           /\ SetDB(o.db)
           /\ last' = [op |-> "extract", raw |-> last.raw, status |-> o.status,
                       body |-> o.body, confidence |-> o.confidence, gate |-> o.gate,
                       upsert_calls |-> o.upsert_calls, upsert |-> o.upsert]
           /\ saved' = IF o.status = "200" /\ o.upsert = "ok"
                       THEN DictPut(saved, o.body.data["InvoiceId"],
                                    Saved(o.body.data, o.body.dataConfidence))
                       ELSE saved

NextNorm == ExtractRaw

SpecNorm == InitNorm /\ [][NextNorm]_vars

(***************************************************************************)
(* Concurrent requests.  Two POST /extract requests run in two workers     *)
(* that share the database (db.py 11, 24: SQLite by default), each with a  *)
(* session of its own (db.py 39-50).  A request advances one statement at  *)
(* a time; last[r] is the position and the locals of request r, saved the  *)
(* requests in the order of their commits.                                 *)
(*   - a SELECT reads the committed rows and holds no lock afterwards;     *)
(*   - the session does not autoflush (db.py 33): the bulk DELETE of the   *)
(*     item rows is the first statement that writes, it opens the write    *)
(*     transaction, and only one write transaction is open at a time;      *)
(*   - the INSERTs and UPDATEs of the session are flushed by db.commit().  *)
(***************************************************************************)
Requests == {1, 2}

EmptyDB == [invoices |-> << >>, confidences |-> << >>, items |-> << >>, nextItemId |-> 1]

\* the invoice stored before the two requests arrive
StoredResponse ==
    Response(<<DocType("INVOICE", 9500)>>,
             <<ScalarField("InvoiceId", "c9", "A"), ScalarField("VendorName", "c7", "v1"),
               ItemsField(<<Group1>>)>>)

\* the documents of the two requests: two new scans of invoice A, one of them
\* with the stored vendor name, an invoice B, a document below the threshold
\* and one without an InvoiceId
ConcResponses ==
    {Response(<<DocType("INVOICE", 9500)>>,
              <<ScalarField("InvoiceId", "c9", "A"), ScalarField("VendorName", "c6", "v2"),
                ScalarField("InvoiceTotal", "c5", "t2"), ItemsField(<<Group2>>)>>),
     Response(<<DocType("INVOICE", 9500)>>,
              <<ScalarField("InvoiceId", "c9", "A"), ScalarField("VendorName", "c7", "v1"),
                ScalarField("InvoiceTotal", "c4", "t3"), ItemsField(<<Group1>>)>>),
     Response(<<DocType("INVOICE", 9500)>>,
              <<ScalarField("InvoiceId", "c8", "B"), ScalarField("VendorName", "c7", "v1"),
                ItemsField(<<Group1>>)>>),
     Response(<<DocType("INVOICE", 8999)>>,
              <<ScalarField("InvoiceId", "c9", "A"), ScalarField("VendorName", "c7", "v1")>>),
     Response(<<DocType("INVOICE", 9500)>>,
              <<ScalarField("VendorName", "c6", "v2")>>)}

\* the database after the stored invoice was extracted
StoredDB ==
    LET result == Normalize(StoredResponse)
    IN  Create(EmptyDB, result.data, result.dataConfidence, "none").db

\* a request that has not called the analysis service yet
NewRequest(response_data) ==
    [pc |-> "received", raw |-> response_data, remote_calls |-> 0, upsert_calls |-> 0,
     result |-> None, existing_invoice |-> None, existing_confidence |-> None,
     work |-> None, tx |-> "none", error |-> "none", status |-> "none", body |-> None]

\* db.query(...).filter_by(InvoiceId=invoice_id).first(): the committed row, or None
FirstRow(table, invoice_id) ==
    IF invoice_id \in DOMAIN table THEN table[invoice_id] ELSE None

\* the UPDATE the flush emits for a loaded object: it sets the columns whose
\* assigned value differs from the value that was loaded, and no other column
FlushUpdate(row, loaded, assigned) ==
    [c \in DOMAIN row |-> IF assigned[c] # loaded[c] THEN assigned[c] ELSE row[c]]

\* the flush of the invoice object: db.add(invoice) is an INSERT, which the
\* primary key refuses for a stored InvoiceId (IntegrityError); the
\* assignments to existing_invoice are an UPDATE of the row, which must still
\* be there (StaleDataError)
FlushInvoice(tx, invoice_id, existing_invoice, invoice_data) ==
    IF existing_invoice = None
    THEN IF invoice_id \in DOMAIN tx.invoices
         THEN [failed |-> TRUE, tx |-> tx, error |-> "IntegrityError"]
         ELSE [failed |-> FALSE,
               tx |-> [tx EXCEPT !.invoices =
                          DictPut(tx.invoices, invoice_id, NewInvoice(invoice_data))]]
    ELSE IF invoice_id \notin DOMAIN tx.invoices
         THEN [failed |-> TRUE, tx |-> tx, error |-> "StaleDataError"]
         ELSE [failed |-> FALSE,
               tx |-> [tx EXCEPT !.invoices =
                          DictPut(tx.invoices, invoice_id,
                                  FlushUpdate(tx.invoices[invoice_id], existing_invoice,
                                              UpdateInvoice(existing_invoice, invoice_data)))]]

\* the flush of the confidence object, in the same way
FlushConfidence(tx, invoice_id, existing_confidence, confidence_data) ==
    IF existing_confidence = None
    THEN IF invoice_id \in DOMAIN tx.confidences
         THEN [failed |-> TRUE, tx |-> tx, error |-> "IntegrityError"]
         ELSE [failed |-> FALSE,
               tx |-> [tx EXCEPT !.confidences =
                          DictPut(tx.confidences, invoice_id, NewConfidence(confidence_data))]]
    ELSE IF invoice_id \notin DOMAIN tx.confidences
         THEN [failed |-> TRUE, tx |-> tx, error |-> "StaleDataError"]
         ELSE [failed |-> FALSE,
               tx |-> [tx EXCEPT !.confidences =
                          DictPut(tx.confidences, invoice_id,
                                  FlushUpdate(tx.confidences[invoice_id], existing_confidence,
                                              UpdateConfidence(existing_confidence, confidence_data)))]]

\* db.commit() of request q: the invoice, its confidence and its new item
\* rows are flushed into the open transaction, up to the first exception
FlushTx(q) ==
    LET invoice_data == q.result.data
        invoice_id == invoice_data["InvoiceId"]
        f1 == FlushInvoice(q.work, invoice_id, q.existing_invoice, invoice_data)
        f2 == FlushConfidence(f1.tx, invoice_id, q.existing_confidence, q.result.dataConfidence)
    IN  IF f1.failed THEN f1
        ELSE IF f2.failed THEN f2
        ELSE [failed |-> FALSE,
              tx |-> AddItems(f2.tx, invoice_id, DictGet(invoice_data, "Items", << >>), 1)]

\* variant: the handler calls the upsert again after an exception
UpsertFailedRetries(q, error) ==
    [q EXCEPT !.pc = "create", !.tx = "rolled_back", !.work = None, !.error = error]

\* variant: the exception of the upsert escapes the handler
UpsertFailedEscapes(q, error) ==
    [q EXCEPT !.pc = "done", !.tx = "rolled_back", !.work = None, !.error = error,
              !.status = "500", !.body = [error |-> "Internal Server Error"]]

\* an exception inside create: db.rollback() and raise (controller 119-124),
\* swallowed by the handler, which goes on to its return (app.py 101-104)
UpsertFailed(q, error) ==
    [q EXCEPT !.pc = "respond", !.tx = "rolled_back", !.work = None, !.error = error]

\* variant: the upsert is handed to a background task, the handler returns
\* once it is started
UpsertStarted(q) == q.pc \in {"select_confidence", "delete_items", "flush", "respond"}

\* the handler is at `return result`: the call of create has returned or raised
UpsertReturned(q) == q.pc = "respond"

InitConc ==
    /\ \E db \in {EmptyDB, StoredDB} :
           /\ invoices = db.invoices
           /\ confidences = db.confidences
           /\ items = db.items
           /\ nextItemId = db.nextItemId
    /\ last \in [Requests -> {NewRequest(response_data) : response_data \in ConcResponses}]
    /\ saved = << >>

\* app.py 35-41: the analysis call, which returns or raises
Analyze(r) ==
    /\ last[r].pc = "received"
    /\ \E raised \in BOOLEAN :
           last' = [last EXCEPT ![r] =
                       IF raised
                       THEN [@ EXCEPT !.remote_calls = @ + 1, !.pc = "done", !.status = "503",
                                      !.body = [error |-> "The service is currently unavailable."]]
                       ELSE [@ EXCEPT !.remote_calls = @ + 1, !.pc = "analyzed"]]
    /\ UNCHANGED <<invoices, confidences, items, nextItemId, saved>>

\* app.py 43-96: the normalisation and the gate
Gate(r) ==
    /\ last[r].pc = "analyzed"
    /\ LET result == Normalize(last[r].raw)
       IN  last' = [last EXCEPT ![r] =
                       IF result.raised \/ result.confidence = NoConfidence
                       THEN [@ EXCEPT !.pc = "done", !.status = "500",
                                      !.body = [error |-> "Internal Server Error"]]
                       ELSE IF LowConfidence(result.confidence)
                       THEN [@ EXCEPT !.pc = "done", !.status = "400",
                                      !.body = [error |-> "Invalid document."]]
                       ELSE [@ EXCEPT !.pc = "create", !.result = result]]
    /\ UNCHANGED <<invoices, confidences, items, nextItemId, saved>>

\* app.py 99 and controller 29-38: create is called; without an InvoiceId it
\* returns None, else it queries the invoice row
SelectInvoice(r) ==
    /\ last[r].pc = "create"
    /\ LET invoice_id == DictGet(last[r].result.data, "InvoiceId", NoneVal)
       IN  last' = [last EXCEPT ![r] =
                       IF ~Truthy(invoice_id)
                       THEN [@ EXCEPT !.upsert_calls = @ + 1, !.tx = "noop", !.pc = "respond"]
                       ELSE [@ EXCEPT !.upsert_calls = @ + 1, !.tx = "none",
                                      !.existing_invoice = FirstRow(invoices, invoice_id),
                                      !.pc = "select_confidence"]]
    /\ UNCHANGED <<invoices, confidences, items, nextItemId, saved>>

\* controller 66: the query of the confidence row
SelectConfidence(r) ==
    /\ last[r].pc = "select_confidence"
    /\ last' = [last EXCEPT ![r] =
                   [@ EXCEPT !.existing_confidence =
                                 FirstRow(confidences, last[r].result.data["InvoiceId"]),
                             !.pc = "delete_items"]]
    /\ UNCHANGED <<invoices, confidences, items, nextItemId, saved>>

\* controller 94: the bulk DELETE of the old item rows opens the write
\* transaction, once no other request holds one
DeleteOldItems(r) ==
    /\ last[r].pc = "delete_items"
    /\ \A o \in Requests \ {r} : last[o].tx # "open"
    /\ last' = [last EXCEPT ![r] =
                   [@ EXCEPT !.work = DeleteItems(DB, last[r].result.data["InvoiceId"]),
                             !.tx = "open", !.pc = "flush"]]
    /\ UNCHANGED <<invoices, confidences, items, nextItemId, saved>>

\* controller 94: the DELETE gives up waiting for the write transaction of
\* another request ("database is locked")
LockTimeout(r) ==
    /\ last[r].pc = "delete_items"
    /\ \E o \in Requests \ {r} : last[o].tx = "open"
    /\ last' = [last EXCEPT ![r] = UpsertFailed(@, "OperationalError")]
    /\ UNCHANGED <<invoices, confidences, items, nextItemId, saved>>

\* controller 114: db.commit() flushes and commits, or the flush raises and
\* the transaction is rolled back
FlushCommit(r) ==
    /\ last[r].pc = "flush"
    /\ LET f == FlushTx(last[r])
       IN  IF f.failed
           THEN /\ SetDB(Rollback(DB, f.tx))
                /\ last' = [last EXCEPT ![r] = UpsertFailed(@, f.error)]
                /\ saved' = saved
           ELSE /\ SetDB(Commit(DB, f.tx))
                /\ last' = [last EXCEPT ![r] =
                               [@ EXCEPT !.tx = "committed", !.work = None, !.pc = "respond"]]
                /\ saved' = Append(saved, r)

\* app.py 104: return result
Respond(r) ==
    /\ UpsertReturned(last[r])
    /\ last' = [last EXCEPT ![r] =
                   [@ EXCEPT !.pc = "done", !.status = "200", !.body = ResultBody(last[r].result)]]
    /\ UNCHANGED <<invoices, confidences, items, nextItemId, saved>>

NextConc ==
    \/ \E r \in Requests : Analyze(r)
    \/ \E r \in Requests : Gate(r)
    \/ \E r \in Requests : SelectInvoice(r)
    \/ \E r \in Requests : SelectConfidence(r)
    \/ \E r \in Requests : DeleteOldItems(r)
    \/ \E r \in Requests : LockTimeout(r)
    \/ \E r \in Requests : FlushCommit(r)
    \/ \E r \in Requests : Respond(r)

SpecConc == InitConc /\ [][NextConc]_vars

(***************************************************************************)
(* Properties                                                              *)
(***************************************************************************)
DBUnchanged == UNCHANGED <<invoices, confidences, items, nextItemId>>

\* the row create writes for a dict: one value per column, None where the
\* dict has no such key
ColumnsOf(d) == [c \in InvoiceColumns |-> DictGet(d, c, NoneVal)]
ItemColumnsOf(entry) == [c \in ItemColumns |-> DictGet(entry, c, NoneVal)]
ItemEntries(fields) == DictGet(fields, "Items", << >>)
\* the stored item rows of an invoice without their surrogate key
StoredItems(invoice_id) ==
    LET rows == InvoiceItems(DB, invoice_id)
    IN  [i \in 1..Len(rows) |-> [c \in ItemColumns |-> rows[i][c]]]
ExpectedItems(fields) ==
    [i \in 1..Len(ItemEntries(fields)) |-> ItemColumnsOf(ItemEntries(fields)[i])]

\* C1: an extract request whose analysis call succeeds is accepted (200 with
\* confidence, data, dataConfidence) exactly when the document confidence is
\* >= 0.9 and rejected with the 400 client error exactly when it is < 0.9;
\* 0.9 itself is accepted.
C1_GateThreshold ==
    (last.op = "extract" /\ last.remote = "returned") =>
        /\ (/\ last.status = "200"
            /\ {"confidence", "data", "dataConfidence"} \subseteq DOMAIN last.body
            /\ last.body.confidence = last.confidence)
             <=> (last.confidence # NoConfidence /\ last.confidence >= 9000)
        /\ (last.status = "400")
             <=> (last.confidence # NoConfidence /\ last.confidence < 9000)

C1_Witness ==
    /\ last.op = "extract"
    /\ last.remote = "returned"
    /\ last.confidence = 9000
    /\ last.status = "200"

\* C2: a request rejected for low confidence never calls the upsert and
\* leaves all three tables as they were; an invoice id that was not stored
\* before the request is still not found after it.
C2_RejectionWritesNothing ==
    [][(last'.op = "extract" /\ last'.status = "400") =>
          /\ last'.upsert_calls = 0
          /\ DBUnchanged
          /\ \A x \in InvoiceIds : ~GetById(DB, x) => ~GetById(DB', x)]_vars

C2_Witness ==
    /\ last.op = "extract"
    /\ last.status = "400"
    /\ last.confidence = 8999
    /\ ~GetById(DB, "A")
    /\ GetById(DB, "B")

\* C3: when the analysis call raises, the request ends with the 503
\* service-unavailable error; normalisation and the gate do not run, the
\* upsert is not called and the tables are unchanged.
C3_RemoteFailureAborts ==
    [][(last'.op = "extract" /\ last'.remote = "raised") =>
          /\ last'.status = "503"
          /\ ~last'.normalized
          /\ last'.gate = "none"
          /\ last'.upsert_calls = 0
          /\ DBUnchanged]_vars

C3_Witness ==
    /\ last.op = "extract"
    /\ last.remote = "raised"
    /\ last.status = "503"
    /\ DOMAIN invoices # {}

\* C4: for an accepted extraction the response (status 200 and the payload
\* confidence / data / dataConfidence) is the same whether the upsert
\* commits, raises at any point, or is a no-op for lack of an InvoiceId.
C4_PersistenceIsolation ==
    /\ (last.op = "extract" /\ last.gate = "accepted") => last.status = "200"
    /\ \A response_data \in Responses :
          LET result == Normalize(response_data)
          IN  (~result.raised /\ result.confidence # NoConfidence
                 /\ result.confidence >= 9000) =>
                  \A failAt \in FailPoints :
                      \E o \in {Extract(DB, response_data, FALSE, failAt)} :
                          /\ o.status = "200"
                          /\ o.body = ResultBody(result)

C4_Witness ==
    /\ last.op = "extract"
    /\ last.gate = "accepted"
    /\ last.upsert = "raised"
    /\ last.status = "200"
    /\ Truthy(DictGet(last.body.data, "InvoiceId", NoneVal))

\* C5: the stored item rows of an invoice are exactly the entries of
\* fields["Items"] of the most recent committed upsert of that invoice, one
\* row per entry in order; nothing of an earlier save survives and no row
\* is duplicated.
C5_ItemsReplaced ==
    \A x \in DOMAIN saved :
        /\ StoredItems(x) = ExpectedItems(saved[x].fields)
        /\ Len(InvoiceItems(DB, x)) = Len(ItemEntries(saved[x].fields))
        /\ \A i, j \in 1..Len(items) : items[i].id = items[j].id => i = j

C5_Witness ==
    /\ last.op \in {"extract", "create"}
    /\ last.upsert = "ok"
    /\ last.populated
    /\ last.arg \in DOMAIN saved
    /\ Len(InvoiceItems(DB, last.arg)) = 1
    /\ InvoiceItems(DB, last.arg)[1].id > 1

C7_NoIdNoOp ==
    [][(last'.op = "create" /\ last'.arg \in {NoneVal, ""}) =>
          /\ last'.status = "returned"
          /\ last'.ret = NoneVal
          /\ DBUnchanged]_vars

C7_Witness ==
    /\ last.op = "create"
    /\ last.arg = ""
    /\ last.failAt = "invoice"
    /\ last.status = "returned"
    /\ DOMAIN invoices # {}

\* C8: after a committed upsert of invoice X every column of its invoice row
\* and of its confidence row is the value of the upsert's fields /
\* fieldConfidences, and None for a column the input lacks; nothing of an
\* earlier save of X is kept, for an inserted and for an updated row.
C8_FullOverwrite ==
    \A x \in DOMAIN saved :
        /\ x \in DOMAIN invoices /\ x \in DOMAIN confidences
        /\ \A c \in InvoiceColumns :
              /\ invoices[x][c] = DictGet(saved[x].fields, c, NoneVal)
              /\ confidences[x][c] = DictGet(saved[x].fieldConfidences, c, NoneVal)

C8_Witness ==
    /\ last.op \in {"extract", "create"}
    /\ last.upsert = "ok"
    /\ last.populated
    /\ invoices[last.arg].VendorName = NoneVal
    /\ confidences[last.arg].VendorName = NoneVal

\* C9: a delete of a stored invoice that succeeds returns True and removes
\* the invoice row, its confidence row and all its item rows, so a lookup by
\* id finds nothing; a delete of an id that is not stored returns False and
\* changes nothing.
C9_DeleteCascades ==
    [][last'.op = "delete" =>
          /\ (last'.arg \in DOMAIN invoices /\ last'.failAt = "none") => last'.ret = "True"
          /\ last'.ret = "True" =>
                /\ last'.arg \notin DOMAIN invoices'
                /\ last'.arg \notin DOMAIN confidences'
                /\ \A i \in 1..Len(items') : items'[i].InvoiceId # last'.arg
                /\ ~GetById(DB', last'.arg)
          /\ last'.arg \notin DOMAIN invoices =>
                (last'.ret = "False" /\ DBUnchanged)]_vars

C9_Witness ==
    /\ last.op = "delete"
    /\ last.ret = "True"
    /\ last.populated
    /\ DOMAIN invoices # {}

\* C10: once an accepted extraction with a non-empty InvoiceId X has been
\* committed, GET /invoice/X answers 200 with the seven columns equal to the
\* extracted field values and Items equal to the extracted item records
\* restricted to Description, Name, Quantity, UnitPrice, Amount, in the
\* order of that save.
C10_LookupRoundTrip ==
    /\ (last.op = "extract" /\ last.upsert = "ok") =>
          /\ GetById(DB, last.arg)
          /\ FormatInvoice(DB, last.arg) =
                [c \in InvoiceColumns \cup {"InvoiceId", "Items"} |->
                    IF c = "Items" THEN ExpectedItems(last.body.data)
                    ELSE DictGet(last.body.data, c, NoneVal)]
    /\ (last.op = "get_invoice" /\ last.arg \in DOMAIN saved) =>
          /\ last.status = "200"
          /\ last.body.InvoiceId = last.arg
          /\ \A c \in InvoiceColumns : last.body[c] = DictGet(saved[last.arg].fields, c, NoneVal)
          /\ last.body.Items = ExpectedItems(saved[last.arg].fields)

C10_Witness ==
    /\ last.op = "get_invoice"
    /\ last.status = "200"
    /\ last.arg \in DOMAIN saved
    /\ last.body.InvoiceTotal = "t2"
    /\ last.body.SubTotal = "u1"
    /\ Len(last.body.Items) = 2
    /\ last.body.Items[1].Description = "d2"
    /\ last.body.Items[2].Amount = "a1"

(***************************************************************************)
(* Properties of the normalisation (checked under SpecNorm)                *)
(***************************************************************************)
\* the detected types of a raw result, none when the attribute is missing or None
DetectedTypesOf(raw) == OrEmpty(GetAttr(raw, "detected_document_types", None))
IsInvoiceEntry(entry) ==
    "document_type" \in DOMAIN entry /\ entry.document_type = "INVOICE"
InvoiceEntries(raw) ==
    {i \in 1..Len(DetectedTypesOf(raw)) : IsInvoiceEntry(DetectedTypesOf(raw)[i])}

\* C11: when detected_document_types is absent, empty or lists no "INVOICE"
\* entry (whatever else it lists), the document confidence is 1.0 and the
\* extraction passes the gate: it is answered 200 with confidence 1.0.
C11_DefaultConfidence ==
    (last.op = "extract" /\ InvoiceEntries(last.raw) = {}) =>
        /\ last.confidence = 10000
        /\ last.gate = "accepted"
        /\ last.status = "200"
        /\ last.body.confidence = 10000

\* C11 witness: a document whose two detected types are not INVOICE, one of
\* them with a confidence below 0.9, has been accepted.
C11_Witness ==
    /\ last.op = "extract"
    /\ Len(DetectedTypesOf(last.raw)) = 2
    /\ InvoiceEntries(last.raw) = {}
    /\ \E i \in 1..2 : /\ "confidence" \in DOMAIN DetectedTypesOf(last.raw)[i]
                       /\ DetectedTypesOf(last.raw)[i].confidence < 9000
    /\ last.status = "200"

\* C12: when detected_document_types lists several "INVOICE" entries, the
\* document confidence is that of the first of them in list order, whatever
\* the later ones say; if that first confidence is below 0.9 the request is
\* rejected with 400.
C12_FirstInvoiceWins ==
    (last.op = "extract" /\ Cardinality(InvoiceEntries(last.raw)) >= 2) =>
        LET first == CHOOSE i \in InvoiceEntries(last.raw) :
                         \A j \in InvoiceEntries(last.raw) : i <= j
            entry == DetectedTypesOf(last.raw)[first]
        IN  "confidence" \in DOMAIN entry =>
                /\ last.confidence = entry.confidence
                /\ entry.confidence < 9000 => last.status = "400"
                /\ entry.confidence >= 9000 => last.status = "200"

\* C12 witness: a first INVOICE entry below 0.9 followed by an INVOICE entry
\* of at least 0.9 has been rejected.
C12_Witness ==
    /\ last.op = "extract"
    /\ Len(DetectedTypesOf(last.raw)) = 2
    /\ InvoiceEntries(last.raw) = {1, 2}
    /\ \A i \in 1..2 : "confidence" \in DOMAIN DetectedTypesOf(last.raw)[i]
    /\ DetectedTypesOf(last.raw)[1].confidence < 9000
    /\ DetectedTypesOf(last.raw)[2].confidence >= 9000
    /\ last.status = "400"

\* the pages of a raw result and its fields in page-then-field encounter order
PagesOf(raw) == OrEmpty(GetAttr(raw, "pages", None))
RECURSIVE Flatten(_)
Flatten(lists) ==
    IF lists = << >> THEN << >> ELSE Head(lists) \o Flatten(Tail(lists))
EncounteredFields(raw) ==
    Flatten([i \in 1..Len(PagesOf(raw)) |->
                OrEmpty(GetAttr(PagesOf(raw)[i], "document_fields", None))])
\* the label name, the value and the label confidence of a field or item-field,
\* None when the label, the value object or the attribute itself is missing
LabelName(field) ==
    IF "field_label" \in DOMAIN field /\ "name" \in DOMAIN field.field_label
    THEN field.field_label.name ELSE NoneVal
LabelConfidence(field) ==
    IF "field_label" \in DOMAIN field /\ "confidence" \in DOMAIN field.field_label
    THEN field.field_label.confidence ELSE NoneVal
ValueOf(field) ==
    IF "field_value" \in DOMAIN field /\ "value" \in DOMAIN field.field_value
    THEN field.field_value.value ELSE NoneVal
\* the item-groups of an Items field and the item-fields of an item-group
GroupsOf(field) ==
    IF "field_value" \in DOMAIN field /\ "items" \in DOMAIN field.field_value
    THEN field.field_value.items ELSE << >>
\* the item-groups of a raw result in encounter order
EncounteredGroups(raw) ==
    LET fields == EncounteredFields(raw)
    IN  Flatten([i \in 1..Len(fields) |->
                    IF LabelName(fields[i]) = "Items" THEN GroupsOf(fields[i]) ELSE << >>])

\* C13 (as claimed): normalisation never fails on missing structure: whichever
\* of detected_document_types, pages, a page's document_fields, a field's
\* field_label or field_value, an Items field's items, an item-group's
\* field_value or its items, an item-field's field_label or field_value is
\* absent or None in the raw result, the extract request does not end in an
\* unhandled exception.
C13_NeverFailsOnMissingStructure ==
    last.op = "extract" => last.status \in {"200", "400"}

\* the label names of the fields that are not the line items
ScalarNames(raw) ==
    {LabelName(EncounteredFields(raw)[i]) : i \in 1..Len(EncounteredFields(raw))}
        \ {NoneVal, "Items"}
\* the last field with a label name in encounter order
LastOccurrence(raw, name) ==
    LET fields == EncounteredFields(raw)
        at == {i \in 1..Len(fields) : LabelName(fields[i]) = name}
    IN  fields[CHOOSE i \in at : \A j \in at : j <= i]

\* C14: when several fields other than Items carry the same label name, on
\* one page or on several, a normalized result has one entry of that name in
\* data and one in dataConfidence, and both are those of the last such field
\* in page-then-field order.
C14_LastWriteWins ==
    (last.op = "extract" /\ last.status = "200") =>
        \A name \in ScalarNames(last.raw) :
            /\ name \in DOMAIN last.body.data
            /\ name \in DOMAIN last.body.dataConfidence
            /\ last.body.data[name] = ValueOf(LastOccurrence(last.raw, name))
            /\ last.body.dataConfidence[name] = LabelConfidence(LastOccurrence(last.raw, name))

\* C14 witness: VendorName occurs twice on the first page (v1, then v2) and
\* again on the second page (v1 with confidence c1), and the result carries
\* the value and the confidence of the second page.
C14_Witness ==
    /\ last.op = "extract"
    /\ last.status = "200"
    /\ Len(PagesOf(last.raw)) = 2
    /\ Len(EncounteredFields(last.raw)) = 3
    /\ \A i \in 1..3 : LabelName(EncounteredFields(last.raw)[i]) = "VendorName"
    /\ ValueOf(EncounteredFields(last.raw)[1]) = "v1"
    /\ ValueOf(EncounteredFields(last.raw)[2]) = "v2"
    /\ last.body.data["VendorName"] = "v1"
    /\ last.body.dataConfidence["VendorName"] = "c1"

\* the names of the named item-fields of an item-group, and the last
\* item-field of a name in it
ItemFieldNames(group) ==
    {LabelName(GroupsOf(group)[j]) : j \in 1..Len(GroupsOf(group))} \ {NoneVal}
LastItemField(group, name) ==
    LET at == {j \in 1..Len(GroupsOf(group)) : LabelName(GroupsOf(group)[j]) = name}
    IN  GroupsOf(group)[CHOOSE j \in at : \A k \in at : k <= j]

\* C15: the item list of a normalized result has one record per item-group,
\* in the order the groups are met across all "Items" fields of all pages;
\* the keys of a record are exactly the names of its group's named
\* item-fields (with their values), and a group without a named item-field
\* yields an empty record.
C15_ItemsFlattened ==
    (last.op = "extract" /\ last.status = "200") =>
        LET groups == EncounteredGroups(last.raw)
            item_list == last.body.data["Items"]
        IN  /\ Len(item_list) = Len(groups)
            /\ \A k \in 1..Len(groups) :
                   /\ DOMAIN item_list[k] = ItemFieldNames(groups[k])
                   /\ \A name \in ItemFieldNames(groups[k]) :
                          item_list[k][name] = ValueOf(LastItemField(groups[k], name))

\* C15 witness: an Items field with four groups on the first page (the first
\* with unnamed item-fields beside three named ones, the others without a
\* named item-field) and an Items field with one group on the second page gave
\* five records in that order, the second to fourth of them empty.
C15_Witness ==
    /\ last.op = "extract"
    /\ last.status = "200"
    /\ Len(PagesOf(last.raw)) = 2
    /\ Len(EncounteredFields(last.raw)) = 2
    /\ Len(GroupsOf(EncounteredFields(last.raw)[1])) = 4
    /\ Len(GroupsOf(EncounteredFields(last.raw)[2])) = 1
    /\ Len(GroupsOf(EncounteredGroups(last.raw)[1])) = 4
    /\ Len(last.body.data["Items"]) = 5
    /\ DOMAIN last.body.data["Items"][1] = {"Quantity", "Name", "UnitPrice"}
    /\ \A k \in 2..4 : last.body.data["Items"][k] = << >>
    /\ last.body.data["Items"][5] = [Name |-> "n1", Amount |-> "a1"]

\* the record of an item-group and the records of all item-groups of a raw result
ItemRecord(group) ==
    [name \in ItemFieldNames(group) |-> ValueOf(LastItemField(group, name))]
ItemRecords(raw) ==
    [k \in 1..Len(EncounteredGroups(raw)) |-> ItemRecord(EncounteredGroups(raw)[k])]

\* C16: data of a normalized result always has the key "Items", and its value
\* is the list of item records collected from the item-groups, the empty list
\* when there are none; the value of a field labelled "Items" is never stored
\* under it.
C16_ItemsAlwaysPresent ==
    (last.op = "extract" /\ last.status = "200") =>
        /\ "Items" \in DOMAIN last.body.data
        /\ last.body.data["Items"] = ItemRecords(last.raw)

\* C16 witness: the only field of the document is labelled "Items" and has the
\* scalar value v7 and no item-groups; data["Items"] is the empty list.
C16_Witness ==
    /\ last.op = "extract"
    /\ last.status = "200"
    /\ Len(EncounteredFields(last.raw)) = 1
    /\ LabelName(EncounteredFields(last.raw)[1]) = "Items"
    /\ ValueOf(EncounteredFields(last.raw)[1]) = "v7"
    /\ DOMAIN last.body.data = {"Items"}
    /\ last.body.data["Items"] = << >>

\* C17: a field other than Items contributes to data and to dataConfidence
\* exactly if its label has a name: every such name is a key of both maps,
\* also when the field has no value (the entry of data is then None), and
\* the maps have no other keys (but "Items" in data), so a field without a
\* label name adds nothing.
C17_NamedFieldsOnly ==
    (last.op = "extract" /\ last.status = "200") =>
        /\ \A name \in ScalarNames(last.raw) :
               /\ name \in DOMAIN last.body.data
               /\ name \in DOMAIN last.body.dataConfidence
               /\ ValueOf(LastOccurrence(last.raw, name)) = NoneVal
                      => last.body.data[name] = NoneVal
        /\ DOMAIN last.body.data \subseteq ScalarNames(last.raw) \cup {"Items"}
        /\ DOMAIN last.body.dataConfidence \subseteq ScalarNames(last.raw)

\* C17 witness: a page with an InvoiceTotal field that has no field_value and
\* a field with a value and no label gave data = {InvoiceTotal: None,
\* Items: []} and dataConfidence = {InvoiceTotal: c3}.
C17_Witness ==
    /\ last.op = "extract"
    /\ last.status = "200"
    /\ Len(EncounteredFields(last.raw)) = 2
    /\ LabelName(EncounteredFields(last.raw)[1]) = "InvoiceTotal"
    /\ "field_value" \notin DOMAIN EncounteredFields(last.raw)[1]
    /\ "field_label" \notin DOMAIN EncounteredFields(last.raw)[2]
    /\ ValueOf(EncounteredFields(last.raw)[2]) = "v4"
    /\ last.body.data = [InvoiceTotal |-> NoneVal, Items |-> << >>]
    /\ last.body.dataConfidence = [InvoiceTotal |-> "c3"]

\* C18 (as claimed): dataConfidence is paired one to one with data: the two
\* maps of a normalized result have the same set of keys.
C18_SameKeys ==
    (last.op = "extract" /\ last.status = "200") =>
        DOMAIN last.body.dataConfidence = DOMAIN last.body.data

\* C18 (amended): the keys of dataConfidence are the keys of data other than
\* "Items"; data always has the key "Items" and dataConfidence never has it.
C18_SameKeysButItems ==
    (last.op = "extract" /\ last.status = "200") =>
        /\ DOMAIN last.body.dataConfidence = DOMAIN last.body.data \ {"Items"}
        /\ "Items" \notin DOMAIN last.body.dataConfidence

\* C18 witness: a document with a VendorName field, an InvoiceDate field whose
\* label has no confidence and an Items field with line items gave data the
\* keys VendorName, InvoiceDate, Items and dataConfidence the keys VendorName,
\* InvoiceDate.
C18_Witness ==
    /\ last.op = "extract"
    /\ last.status = "200"
    /\ Len(EncounteredGroups(last.raw)) > 0
    /\ DOMAIN last.body.data = {"VendorName", "InvoiceDate", "Items"}
    /\ DOMAIN last.body.dataConfidence = {"VendorName", "InvoiceDate"}
    /\ last.body.dataConfidence["InvoiceDate"] = NoneVal

(***************************************************************************)
(* Properties of the lookups (checked under Spec)                          *)
(***************************************************************************)
\* C19: GET /invoice/{id} answers with the 404 "Invoice not found" error
\* exactly when no invoice row with that InvoiceId is stored, and otherwise
\* with 200 and that invoice's columns and item rows; GET
\* /invoices/vendor/{name} always answers 200, with an empty invoice list when
\* no stored invoice has that vendor name.
C19_NotFoundOnlyById ==
    /\ last.op = "get_invoice" =>
          /\ last.status \in {"200", "404"}
          /\ last.status = "404" <=> last.arg \notin DOMAIN invoices
          /\ last.status = "404" => last.body = [error |-> "Invoice not found"]
          /\ last.status = "200" =>
                /\ last.body.InvoiceId = last.arg
                /\ \A c \in InvoiceColumns : last.body[c] = invoices[last.arg][c]
                /\ last.body.Items = StoredItems(last.arg)
    /\ last.op = "get_invoices_by_vendor" =>
          /\ last.status = "200"
          /\ (\A id \in DOMAIN invoices : invoices[id].VendorName # last.arg)
                 => last.body.invoices = << >>

\* C19 witness: a lookup of an id that is not stored has been answered 404
\* while the other invoice is stored with item rows.
C19_Witness ==
    /\ last.op = "get_invoice"
    /\ last.status = "404"
    /\ \E id \in DOMAIN invoices : id # last.arg /\ Len(InvoiceItems(DB, id)) > 0

\* C20: GET /invoices/vendor/{V} answers with VendorName = V, with invoices
\* listing each stored invoice whose VendorName is V exactly once (its
\* columns and its item rows) and no other invoice, and with TotalInvoices
\* equal to the length of that list; when no stored invoice has vendor V the
\* count is 0 and the list is empty.
C20_VendorLookup ==
    last.op = "get_invoices_by_vendor" =>
        LET matching == {id \in DOMAIN invoices : invoices[id].VendorName = last.arg}
            listed == last.body.invoices
        IN  /\ last.body.VendorName = last.arg
            /\ Len(listed) = Cardinality(matching)
            /\ {listed[i].InvoiceId : i \in 1..Len(listed)} = matching
            /\ \A i \in 1..Len(listed) :
                   /\ \A c \in InvoiceColumns :
                          listed[i][c] = invoices[listed[i].InvoiceId][c]
                   /\ listed[i].Items = StoredItems(listed[i].InvoiceId)
            /\ last.body.TotalInvoices = Len(listed)
            /\ matching = {} => (last.body.TotalInvoices = 0 /\ listed = << >>)

\* C20 witness: two invoices of different vendors are stored, and a vendor
\* lookup has listed the one of its vendor, with its item row, and counted 1.
C20_Witness ==
    /\ last.op = "get_invoices_by_vendor"
    /\ Cardinality(DOMAIN invoices) = 2
    /\ \A id \in DOMAIN invoices : invoices[id].VendorName # NoneVal
    /\ last.body.TotalInvoices = 1
    /\ Len(last.body.invoices) = 1
    /\ Len(last.body.invoices[1].Items) = 1

(***************************************************************************)
(* Properties of the extract response (checked under Spec)                 *)
(***************************************************************************)
\* C21 (as claimed): the response of every accepted extract request has the
\* keys confidence, data, dataConfidence and predictionTime.
C21_ResponseKeys ==
    (last.op = "extract" /\ last.status = "200") =>
        {"confidence", "data", "dataConfidence", "predictionTime"} \subseteq DOMAIN last.body

\* C22: the response of a rejected (low-confidence) extract request carries
\* the error only: its body has the one key "error" and none of confidence,
\* data, dataConfidence.
C22_RejectionCarriesOnlyError ==
    (last.op = "extract" /\ last.gate = "rejected") =>
        /\ last.status = "400"
        /\ DOMAIN last.body = {"error"}
        /\ DOMAIN last.body \cap {"confidence", "data", "dataConfidence"} = {}

\* C22 witness: a document with fields and line items was normalized, found
\* to have a confidence below 0.9, and answered with the error alone.
C22_Witness ==
    /\ last.op = "extract"
    /\ last.normalized
    /\ last.confidence >= 0
    /\ last.confidence < Threshold
    /\ last.gate = "rejected"
    /\ DOMAIN last.body = {"error"}

(***************************************************************************)
(* Properties of the controller (checked under Spec)                       *)
(***************************************************************************)
\* C26: when the database raises while delete is deleting a stored invoice,
\* delete returns False instead of raising, and after the rollback the
\* invoice, its confidence row and its item rows are stored as before.
C26_DeleteFailureKeepsInvoice ==
    [][(last'.op = "delete" /\ last'.failAt = "delete" /\ last'.arg \in DOMAIN invoices) =>
          /\ last'.status = "returned"
          /\ last'.ret = "False"
          /\ DBUnchanged
          /\ last'.arg \in DOMAIN invoices' /\ last'.arg \in DOMAIN confidences']_vars

\* C26 witness: a delete of a stored invoice with a vendor name and item rows
\* has failed in the database and returned False, and the invoice and its
\* item rows are stored.
C26_Witness ==
    /\ last.op = "delete"
    /\ last.failAt = "delete"
    /\ last.ret = "False"
    /\ last.populated
    /\ last.arg \in DOMAIN invoices
    /\ Len(InvoiceItems(DB, last.arg)) > 0

\* C27: the upsert is idempotent: when a committed upsert (by a direct create
\* or by an accepted extract request) with a non-empty InvoiceId is followed
\* at once by a committed upsert with the same fields and confidences, the
\* second leaves the invoice row, the confidence row and the item rows
\* without their surrogate keys as the first left them.
C27_UpsertIdempotent ==
    [][(/\ last.op \in {"create", "extract"} /\ last.upsert = "ok"
        /\ last'.op = last.op /\ last'.upsert = "ok"
        /\ last'.body = last.body) =>
          /\ last'.arg = last.arg
          /\ invoices'[last.arg] = invoices[last.arg]
          /\ confidences'[last.arg] = confidences[last.arg]
          /\ StoredItems(last.arg)' = StoredItems(last.arg)]_vars

\* C27 witness: the only stored invoice was committed by the last upsert, its
\* one item row has the second surrogate key the table has handed out: the
\* row of an earlier upsert was replaced.
C27_Witness ==
    /\ last.op \in {"create", "extract"}
    /\ last.upsert = "ok"
    /\ DOMAIN invoices = {last.arg}
    /\ Len(items) = 1
    /\ items[1].id = 2
    /\ nextItemId = 3

\* C28: in every committed state reached by successful and failed creates
\* and deletes, every item row names a stored invoice and the confidences
\* table has a row for exactly the stored invoices.
C28_ReferentialConsistency ==
    /\ \A i \in 1..Len(items) : items[i].InvoiceId \in DOMAIN invoices
    /\ DOMAIN confidences = DOMAIN invoices

\* C28 witness: after a failed call, two invoices are stored, one created with
\* an empty confidence dict, and item rows of both of them.
C28_Witness ==
    /\ last.op \in {"create", "delete"}
    /\ last.failAt # "none"
    /\ DOMAIN invoices = {"A", "B"}
    /\ DOMAIN confidences = {"A", "B"}
    /\ \E x \in DOMAIN confidences : \A c \in InvoiceColumns : confidences[x][c] = NoneVal
    /\ \A x \in {"A", "B"} : Len(InvoiceItems(DB, x)) > 0

(***************************************************************************)
(* Properties of concurrent requests (checked under SpecConc)              *)
(***************************************************************************)
\* the InvoiceId request r upserts, None for a request that was not accepted
UpsertId(r) ==
    IF last[r].result = None THEN NoneVal
    ELSE DictGet(last[r].result.data, "InvoiceId", NoneVal)

\* the rows of an invoice are those the upsert of request r writes on its own
RowsAreThoseOf(r) ==
    /\ invoices[UpsertId(r)] = ColumnsOf(last[r].result.data)
    /\ confidences[UpsertId(r)] = ColumnsOf(last[r].result.dataConfidence)
    /\ StoredItems(UpsertId(r)) = ExpectedItems(last[r].result.data)

\* C23: when two concurrent upserts of the same InvoiceId have both committed,
\* the invoice row, the confidence row and the item rows of that id are the
\* ones the upsert that committed last writes on its own: the item rows are its
\* items only, and no column holds a value of the upsert that committed first.
C23_LastCommitWins ==
    \A r1, r2 \in Requests :
        (saved = <<r1, r2>> /\ UpsertId(r1) = UpsertId(r2)) => RowsAreThoseOf(r2)

\* a request that has answered has finished its upsert attempt, and a
\* committed one is found by a lookup
UpsertFinished ==
    \A r \in Requests :
        (last[r].pc = "done" /\ last[r].upsert_calls > 0) =>
            /\ last[r].tx \in {"committed", "rolled_back", "noop"}
            /\ last[r].work = None
            /\ last[r].tx = "committed" => GetById(DB, UpsertId(r))

\* once a request has answered, no step changes its record, and the database
\* changes only by the step of another request
NothingAfterResponse ==
    \A r \in Requests :
        last[r].pc = "done" =>
            /\ last'[r] = last[r]
            /\ (\A o \in Requests \ {r} : last'[o] = last[o]) => DBUnchanged

\* C24: a request has answered only after its upsert attempt has finished
\* (committed, rolled back, or returned without writing); a request that has
\* answered does no persistence work afterwards: it takes no further step and
\* holds no open transaction; and the invoice of an answered request whose
\* upsert committed is found by a lookup.
C24_UpsertBeforeResponse == []UpsertFinished /\ [][NothingAfterResponse]_vars

\* both requests have answered 200, one after a commit, one after a rollback
C24_Witness ==
    /\ \A r \in Requests : last[r].pc = "done" /\ last[r].status = "200"
    /\ \E r \in Requests : last[r].tx = "committed" /\ GetById(DB, UpsertId(r))
    /\ \E r \in Requests : last[r].tx = "rolled_back"

\* C25: a request calls the analysis service exactly once and the upsert at
\* most once: a request past its analysis call has made one call and makes no
\* second one, a failed analysis call ends the request with the 503 answer and
\* without an upsert, and a failed upsert is not called again.
C25_NoRetries ==
    \A r \in Requests :
        /\ last[r].remote_calls = IF last[r].pc = "received" THEN 0 ELSE 1
        /\ last[r].upsert_calls <= 1
        /\ last[r].status = "503" => (last[r].pc = "done" /\ last[r].upsert_calls = 0)
        /\ last[r].tx = "rolled_back" => last[r].upsert_calls = 1

\* one request has answered 200 after its only analysis call returned and its
\* only upsert call failed, while the upsert of the other request committed
C25_Witness ==
    \E r1, r2 \in Requests :
        /\ last[r1].pc = "done" /\ last[r1].status = "200" /\ last[r1].tx = "rolled_back"
        /\ last[r1].remote_calls = 1 /\ last[r1].upsert_calls = 1
        /\ last[r2].pc = "done" /\ last[r2].tx = "committed"
        /\ last[r2].remote_calls = 1 /\ last[r2].upsert_calls = 1

\* C30: when two accepted requests have upserted the same InvoiceId, which
\* neither of them found stored, exactly one of the two transactions has
\* committed and the other was rolled back; the invoice has one invoice row,
\* one confidence row and the item rows of the committed request, with nothing
\* of the other request in them; and both requests have answered 200 with the
\* result of their own document.
C30_ConcurrentInsert ==
    \A r1, r2 \in Requests :
        (/\ r1 # r2
         /\ last[r1].pc = "done" /\ last[r2].pc = "done"
         /\ last[r1].upsert_calls = 1 /\ last[r2].upsert_calls = 1
         /\ Truthy(UpsertId(r1)) /\ UpsertId(r1) = UpsertId(r2)
         /\ last[r1].existing_invoice = None /\ last[r2].existing_invoice = None) =>
            /\ Len(saved) = 1
            /\ \A r \in {r1, r2} :
                   /\ last[r].status = "200"
                   /\ last[r].body = ResultBody(Normalize(last[r].raw))
                   /\ last[r].tx = IF r = saved[1] THEN "committed" ELSE "rolled_back"
            /\ UpsertId(r1) \in DOMAIN invoices
            /\ UpsertId(r1) \in DOMAIN confidences
            /\ RowsAreThoseOf(saved[1])

\* two requests with different documents for invoice A, which was not stored:
\* one committed, the INSERT of the other was refused by the primary key
C30_Witness ==
    \E r1, r2 \in Requests :
        /\ last[r1].pc = "done" /\ last[r2].pc = "done"
        /\ last[r1].raw # last[r2].raw
        /\ UpsertId(r1) = "A" /\ UpsertId(r2) = "A"
        /\ last[r1].existing_invoice = None /\ last[r2].existing_invoice = None
        /\ saved = <<r1>>
        /\ last[r2].tx = "rolled_back" /\ last[r2].error = "IntegrityError"
        /\ last[r1].status = "200" /\ last[r2].status = "200"
        /\ RowsAreThoseOf(r1)

\* the rows of invoice x in a database: its invoice row, its confidence row
\* and its item rows with their surrogate keys
RowsOf(db, x) ==
    [invoice |-> FirstRow(db.invoices, x),
     confidence |-> FirstRow(db.confidences, x),
     items |-> InvoiceItems(db, x)]

\* the same without the surrogate keys of the item rows
RowsModuloKeys(db, x) ==
    [invoice |-> FirstRow(db.invoices, x),
     confidence |-> FirstRow(db.confidences, x),
     items |-> [i \in 1..Len(InvoiceItems(db, x)) |->
                   [c \in ItemColumns |-> InvoiceItems(db, x)[i][c]]]]

\* the database after the upserts of the two requests ran one after the
\* other, in the given order, on the database db
SerialUpserts(db, order) ==
    LET first == last[order[1]].result
        second == last[order[2]].result
    IN  Create(Create(db, first.data, first.dataConfidence, "none").db,
               second.data, second.dataConfidence, "none").db

\* the upserts of both requests have committed, for two different InvoiceIds
BothCommitted ==
    /\ Len(saved) = 2
    /\ UpsertId(1) # UpsertId(2)

\* a step changes the rows of an invoice only if it is the commit of an upsert
\* of that invoice
UpsertFrame ==
    \A x \in InvoiceIds :
        (saved' = saved \/ x # UpsertId(saved'[Len(saved')])) => RowsOf(DB, x)' = RowsOf(DB, x)

\* a delete of invoice x, failing or not, changes the rows of no other invoice
DeleteFrame ==
    \A x \in InvoiceIds, fails \in BOOLEAN :
        \A y \in InvoiceIds \ {x} : RowsOf(Delete(DB, x, fails).db, y) = RowsOf(DB, y)

\* whatever the interleaving, the rows of both invoices are those of their own
\* upsert, and, up to the surrogate keys of the item rows, those of the two
\* serial orders
UpsertsCommute ==
    BothCommitted =>
        /\ RowsAreThoseOf(1) /\ RowsAreThoseOf(2)
        /\ \A db \in {EmptyDB, StoredDB}, x \in InvoiceIds :
               /\ RowsModuloKeys(DB, x) = RowsModuloKeys(SerialUpserts(db, <<1, 2>>), x)
               /\ RowsModuloKeys(DB, x) = RowsModuloKeys(SerialUpserts(db, <<2, 1>>), x)

\* C29 as stated: an upsert or a delete for one InvoiceId leaves the rows of
\* every other InvoiceId unchanged, and after the upserts of two different
\* InvoiceIds the database is the one both serial orders give, whatever the
\* interleaving.
C29_SameFinalState ==
    BothCommitted =>
        \E db \in {EmptyDB, StoredDB} :
            /\ DB = SerialUpserts(db, <<1, 2>>)
            /\ DB = SerialUpserts(db, <<2, 1>>)

\* C29, amended: an upsert or a delete for one InvoiceId leaves the invoice,
\* confidence and item rows of every other InvoiceId unchanged; after the
\* upserts of two different InvoiceIds, in either order and in any
\* interleaving, each invoice has the rows of its own upsert, the same as after
\* the serial orders up to the surrogate keys of the item rows.
C29_FrameAndCommute == [](DeleteFrame /\ UpsertsCommute) /\ [][UpsertFrame]_vars

\* invoice A was stored; the request for B committed before the request for A,
\* which had read the stored row; both invoices have item rows
C29_Witness ==
    /\ saved = <<2, 1>>
    /\ UpsertId(1) = "A" /\ UpsertId(2) = "B"
    /\ last[1].existing_invoice # None
    /\ last[1].pc = "done" /\ last[2].pc = "done"
    /\ Len(InvoiceItems(DB, "A")) > 0 /\ Len(InvoiceItems(DB, "B")) > 0

====
